---- MODULE Spec2Model ----
(***************************************************************************)
(* Model of the apmProject repository:                                     *)
(*   - the "Deploy with Performance Gate" workflow (deploy.yml, given in   *)
(*     src/Opgave2.md), run by GitHub Actions;                             *)
(*   - the load-test script (src/unnamed/part_000, load-test.js);          *)
(*   - the trickle traffic generator and the Express target service        *)
(*     (src/generatetraffic.js).                                           *)
(* The three parts do not share state; each has its own specification.     *)
(***************************************************************************)
EXTENDS Integers, Sequences, FiniteSets, TLC

VARIABLES
  \* ---- deploy.yml ----
  sha,                 \* github.sha of the run
  actor,               \* github.actor of the run
  outcome,             \* job -> "pending" | "running" | "skipped" | "ran-ok" | "ran-failed"
  stepIdx,             \* job -> index of the step the running job is at (1-based)
  checkResult,         \* what the metric query of performance-check found
  checkOutcome,        \* steps.performance-check.outcome
  checkStatusOutput,   \* steps.performance-check.outputs.status
  setStatusOutput,     \* steps.set-status.outputs.status
  performance_status,  \* needs.performance-gate.outputs.performance_status
  failedSteps,         \* the steps that ended in failure, as <<job, step>>
  markers,             \* deployment markers recorded in New Relic, in order
  conclusion,          \* conclusion of the workflow run
  \* ---- load-test.js ----
  ltPc,                \* where the script is: "start", "awaiting", "resolved", "exited"
  ltP99,               \* result.latency.p99 of the autocannon result (-1: no result)
  ltTotal,             \* result.requests.total (-1: no result)
  ltNon2xx,            \* result.non2xx, the responses that were not 2xx (-1: no result)
  ltThrew,             \* the autocannon call rejected
  ltExit,              \* exit status of the process (-1 while it runs)
  \* ---- generatetraffic.js ----
  now,                 \* milliseconds since the generator scheduled its timers
  reqs,                \* request i -> its state, endpoint, server timer and status
  serverUp,            \* the process of the service is running
  \* ---- performance-test.yml ----
  ptStep,              \* index of the step the performance-test job is at
  ptOutcome,           \* step -> "pending" | "success" | "failure" | "skipped"
  ptApmResult,         \* what the metric query of apm-check found
  ptReports,           \* how many times performance-report.md was written
  ptWording,           \* status wording of the report ("" while there is none)
  ptArtifact,          \* the report was uploaded as an artifact
  ptConclusion,        \* conclusion of the run ("none" while it runs)
  ptApp,               \* the app of `npm start &`: "none" | "running" | "dead" | "killed"
  \* ---- generatetraffic.js, the Express app ----
  svReqs,              \* the requests the service received, in order of arrival
  svLayer,             \* layer of the stack the current request is at (0: none)
  svErr                \* an error is being passed down the stack

pipeVars == <<sha, actor, outcome, stepIdx, checkResult, checkOutcome,
              checkStatusOutput, setStatusOutput, performance_status,
              failedSteps, markers, conclusion>>

loadVars == <<ltPc, ltP99, ltTotal, ltNon2xx, ltThrew, ltExit>>

trafficVars == <<now, reqs, serverUp>>

perfVars == <<ptStep, ptOutcome, ptApmResult, ptReports, ptWording,
              ptArtifact, ptConclusion, ptApp>>

svcVars == <<svReqs, svLayer, svErr>>

vars == <<pipeVars, loadVars, trafficVars, perfVars, svcVars>>

----------------------------------------------------------------------------
(* Bounds of the model *)

\* number of distinct commits a run can be triggered for
MaxRevisions == 2
\* number of distinct users that can trigger a run
MaxActors == 2

Revisions == 1..MaxRevisions
Actors == 1..MaxActors

----------------------------------------------------------------------------
(* deploy.yml: static configuration *)

Jobs == {"performance-gate", "deploy-staging", "deploy-production",
         "notify-performance-issue"}

\* deploy-production without its dependency on deploy-staging
Needs_NoStaging(j) ==
  CASE j = "performance-gate"         -> {}
    [] j = "deploy-staging"           -> {"performance-gate"}
    [] j = "deploy-production"        -> {"performance-gate"}
    [] j = "notify-performance-issue" -> {"performance-gate"}

\* `needs:` of each job
Needs(j) ==
  CASE j = "performance-gate"         -> {}
    [] j = "deploy-staging"           -> {"performance-gate"}
    [] j = "deploy-production"        -> {"performance-gate", "deploy-staging"}
    [] j = "notify-performance-issue" -> {"performance-gate"}

\* `steps:` of each job, by name (or id)
Steps(j) ==
  CASE j = "performance-gate"         -> <<"performance-check", "set-status">>
    [] j = "deploy-staging"           -> <<"checkout", "setup-node", "deploy", "mark-deployment">>
    [] j = "deploy-production"        -> <<"checkout", "setup-node", "deploy", "mark-deployment">>
    [] j = "notify-performance-issue" -> <<"send-notification">>

\* the workflow without `continue-on-error: true`
ContinueOnError_None(j, s) == FALSE

\* `continue-on-error:` of a step
ContinueOnError(j, s) == j = "performance-gate" /\ s = "performance-check"

\* A step that calls an action (`uses:`) can fail; the `run:` steps of the
\* workflow only echo a line and end with status 0.
CanFail(j, s) ==
  s \in {"performance-check", "checkout", "setup-node", "mark-deployment"}

\* `description:` passed to the deployment marker action
MarkerDescription(j) ==
  CASE j = "deploy-staging"    -> "Deployed to staging"
    [] j = "deploy-production" -> "Deployed to production"

\* deploy-production guarded by "the gate did not say fail"
JobIf_NotFail(j, status) ==
  CASE j = "deploy-production"        -> status # "fail"
    [] j = "notify-performance-issue" -> status = "fail"
    [] OTHER                          -> TRUE

\* notify-performance-issue without its `if:`
JobIf_NotifyAlways(j, status) ==
  CASE j = "deploy-production"        -> status = "pass"
    [] OTHER                          -> TRUE

\* `if:` of each job; a job without `if:` has none
JobIf(j, status) ==
  CASE j = "deploy-production"        -> status = "pass"
    [] j = "notify-performance-issue" -> status = "fail"
    [] OTHER                          -> TRUE

\* a failed job not counted as finished
Terminal_NoFailed(o) == o \in {"skipped", "ran-ok"}

\* a job has finished: it was skipped, succeeded or failed
Terminal(o) == o \in {"skipped", "ran-ok", "ran-failed"}

\* success(): the status check GitHub Actions adds to every `if:` that
\* names no status function; true when every needed job succeeded.
NeedsSucceeded(j, oc) == \A d \in Needs(j) : oc[d] = "ran-ok"

\* The job `j` is runnable: all of its `needs:` have finished.
NeedsFinished(j, oc) == \A d \in Needs(j) : Terminal(oc[d])

\* What the metric query of newrelic/newrelic-action can come to:
\* the value is within the threshold, it breaches it, or the query fails.
CheckResults == {"within", "breach", "error"}

\* outcome of the performance-check step for a result of the action
StepOutcomeOf(result) == IF result = "within" THEN "success" ELSE "failure"

\* The `status` output of newrelic/newrelic-action. The workflow never sets
\* it; the action either publishes no such output (the expression is then
\* the empty string) or publishes a verdict that agrees with its outcome.
ActionStatusOutputs(stepOutcome) ==
  {"", IF stepOutcome = "success" THEN "pass" ELSE "fail"}

\* "Set performance status": the status the shell step writes
SetStatus(stepOutcome) == IF stepOutcome = "success" THEN "pass" ELSE "fail"

\* job output `performance_status: ${{ steps.performance-check.outputs.status }}`
JobOutputPerformanceStatus(checkOut, setOut) == checkOut

\* conclusion of the workflow run: failure when a job failed
RunConclusion(oc) ==
  IF \E j \in Jobs : oc[j] = "ran-failed" THEN "failure" ELSE "success"

----------------------------------------------------------------------------
(* deploy.yml: a run *)

PipeInit ==
  /\ sha \in Revisions
  /\ actor \in Actors
  /\ outcome = [j \in Jobs |-> "pending"]
  /\ stepIdx = [j \in Jobs |-> 0]
  /\ checkResult = "none"
  /\ checkOutcome = ""
  /\ checkStatusOutput = ""
  /\ setStatusOutput = ""
  /\ performance_status = ""
  /\ failedSteps = {}
  /\ markers = <<>>
  /\ conclusion = "none"

CurrentStep(j) == Steps(j)[stepIdx[j]]

\* The runner picks up job j once its needs have finished; the job is
\* skipped when a needed job did not succeed or its `if:` is false.
StartJob(j) ==
  /\ outcome[j] = "pending"
  /\ NeedsFinished(j, outcome)
  /\ IF NeedsSucceeded(j, outcome) /\ JobIf(j, performance_status)
       THEN /\ outcome' = [outcome EXCEPT ![j] = "running"]
            /\ stepIdx' = [stepIdx EXCEPT ![j] = 1]
       ELSE /\ outcome' = [outcome EXCEPT ![j] = "skipped"]
            /\ UNCHANGED stepIdx
  /\ UNCHANGED <<sha, actor, checkResult, checkOutcome, checkStatusOutput,
                 setStatusOutput, performance_status, failedSteps, markers,
                 conclusion>>
  /\ UNCHANGED <<loadVars, trafficVars, perfVars, svcVars>>

\* Step "Check recent performance metrics" (id performance-check).
\* continue-on-error: the job goes on whatever the outcome.
PerformanceCheck ==
  /\ outcome["performance-gate"] = "running"
  /\ CurrentStep("performance-gate") = "performance-check"
  /\ \E r \in CheckResults :
       /\ checkResult' = r
       /\ checkOutcome' = StepOutcomeOf(r)
       /\ failedSteps' = IF StepOutcomeOf(r) = "failure"
                           THEN failedSteps \cup {<<"performance-gate", "performance-check">>}
                           ELSE failedSteps
       /\ \E st \in ActionStatusOutputs(StepOutcomeOf(r)) :
            checkStatusOutput' = st
       /\ IF StepOutcomeOf(r) = "success"
             \/ ContinueOnError("performance-gate", "performance-check")
            THEN /\ stepIdx' = [stepIdx EXCEPT !["performance-gate"] = @ + 1]
                 /\ UNCHANGED <<outcome, performance_status>>
            ELSE /\ outcome' = [outcome EXCEPT !["performance-gate"] = "ran-failed"]
                 /\ performance_status' =
                      JobOutputPerformanceStatus(checkStatusOutput', setStatusOutput)
                 /\ UNCHANGED stepIdx
  /\ UNCHANGED <<sha, actor, setStatusOutput, markers, conclusion>>
  /\ UNCHANGED <<loadVars, trafficVars, perfVars, svcVars>>

\* Step "Set performance status" (id set-status), the last step of the job:
\* when it is over the job's outputs are evaluated.
SetPerformanceStatus ==
  /\ outcome["performance-gate"] = "running"
  /\ CurrentStep("performance-gate") = "set-status"
  /\ setStatusOutput' = SetStatus(checkOutcome)
  /\ outcome' = [outcome EXCEPT !["performance-gate"] = "ran-ok"]
  /\ performance_status' =
       JobOutputPerformanceStatus(checkStatusOutput, setStatusOutput')
  /\ UNCHANGED <<sha, actor, stepIdx, checkResult, checkOutcome,
                 checkStatusOutput, failedSteps, markers, conclusion>>
  /\ UNCHANGED <<loadVars, trafficVars, perfVars, svcVars>>

\* A step of a deploy or notify job other than the deployment marker:
\* it succeeds, or (a step that can fail) fails and the job fails with it.
RunStep(j) ==
  /\ j # "performance-gate"
  /\ outcome[j] = "running"
  /\ CurrentStep(j) # "mark-deployment"
  /\ \/ /\ UNCHANGED failedSteps
        /\ IF stepIdx[j] = Len(Steps(j))
             THEN /\ outcome' = [outcome EXCEPT ![j] = "ran-ok"]
                  /\ UNCHANGED stepIdx
             ELSE /\ stepIdx' = [stepIdx EXCEPT ![j] = @ + 1]
                  /\ UNCHANGED outcome
     \/ /\ CanFail(j, CurrentStep(j))
        /\ outcome' = [outcome EXCEPT ![j] = "ran-failed"]
        /\ failedSteps' = failedSteps \cup {<<j, CurrentStep(j)>>}
        /\ UNCHANGED stepIdx
  /\ UNCHANGED <<sha, actor, checkResult, checkOutcome, checkStatusOutput,
                 setStatusOutput, performance_status, markers, conclusion>>
  /\ UNCHANGED <<loadVars, trafficVars, perfVars, svcVars>>

\* Step "Mark deployment in New Relic", the last step of a deploy job.
MarkDeployment(j) ==
  /\ outcome[j] = "running"
  /\ CurrentStep(j) = "mark-deployment"
  /\ \/ /\ markers' = Append(markers,
                        [revision |-> sha, user |-> actor,
                         description |-> MarkerDescription(j)])
        /\ outcome' = [outcome EXCEPT ![j] = "ran-ok"]
        /\ UNCHANGED failedSteps
     \/ /\ CanFail(j, "mark-deployment")
        /\ outcome' = [outcome EXCEPT ![j] = "ran-failed"]
        /\ failedSteps' = failedSteps \cup {<<j, "mark-deployment">>}
        /\ UNCHANGED markers
  /\ UNCHANGED <<sha, actor, stepIdx, checkResult, checkOutcome,
                 checkStatusOutput, setStatusOutput, performance_status,
                 conclusion>>
  /\ UNCHANGED <<loadVars, trafficVars, perfVars, svcVars>>

\* All jobs have finished: the run gets its conclusion.
ConcludeRun ==
  /\ conclusion = "none"
  /\ \A j \in Jobs : Terminal(outcome[j])
  /\ conclusion' = RunConclusion(outcome)
  /\ UNCHANGED <<sha, actor, outcome, stepIdx, checkResult, checkOutcome,
                 checkStatusOutput, setStatusOutput, performance_status,
                 failedSteps, markers>>
  /\ UNCHANGED <<loadVars, trafficVars, perfVars, svcVars>>

PipeNext ==
  \/ \E j \in Jobs : StartJob(j)
  \/ PerformanceCheck
  \/ SetPerformanceStatus
  \/ \E j \in Jobs : RunStep(j)
  \/ \E j \in Jobs : MarkDeployment(j)
  \/ ConcludeRun

----------------------------------------------------------------------------
(* load-test.js *)

\* largest p99 latency (ms) an autocannon result carries in the model
MaxP99 == 700

\* largest number of requests an autocannon result counts in the model
MaxTotal == 2

\* `result.latency.p99 > 500`
P99Threshold == 500

\* the comparison written with >=
ThresholdExceeded_Inclusive(p99) == p99 >= P99Threshold

\* `if (result.latency.p99 > 500)`
ThresholdExceeded(p99) == p99 > P99Threshold

\* an exit status that also fails a run whose responses were all non-2xx
ExitStatus_CountsErrors(p99, non2xx, total) ==
  IF ThresholdExceeded(p99) \/ (total > 0 /\ non2xx = total) THEN 1 ELSE 0

\* exit status of a run whose autocannon call resolved: 1 when the p99
\* threshold is exceeded, 0 otherwise; the counts are only logged
ExitStatus(p99, non2xx, total) ==
  IF ThresholdExceeded(p99) THEN 1 ELSE 0

LoadInit ==
  /\ ltPc = "start"
  /\ ltP99 = -1
  /\ ltTotal = -1
  /\ ltNon2xx = -1
  /\ ltThrew = FALSE
  /\ ltExit = -1

\* runLoadTest() is called and awaits autocannon(...)
RunLoadTest ==
  /\ ltPc = "start"
  /\ ltPc' = "awaiting"
  /\ UNCHANGED <<ltP99, ltTotal, ltNon2xx, ltThrew, ltExit>>
  /\ UNCHANGED <<pipeVars, trafficVars, perfVars, svcVars>>

\* the autocannon promise resolves with a result
AutocannonResolves ==
  /\ ltPc = "awaiting"
  /\ \E p \in 0..MaxP99 : ltP99' = p
  /\ \E t \in 0..MaxTotal : \E n \in 0..t :
       /\ ltTotal' = t
       /\ ltNon2xx' = n
  /\ ltPc' = "resolved"
  /\ UNCHANGED <<ltThrew, ltExit>>
  /\ UNCHANGED <<pipeVars, trafficVars, perfVars, svcVars>>

\* the rejection handled without a failing exit status
AutocannonRejects_ExitZero ==
  /\ ltPc = "awaiting"
  /\ ltThrew' = TRUE
  /\ ltExit' = 0
  /\ ltPc' = "exited"
  /\ UNCHANGED <<ltP99, ltTotal, ltNon2xx>>
  /\ UNCHANGED <<pipeVars, trafficVars, perfVars, svcVars>>

\* the autocannon promise rejects: `.catch(err => { ...; process.exit(1) })`
AutocannonRejects ==
  /\ ltPc = "awaiting"
  /\ ltThrew' = TRUE
  /\ ltExit' = 1
  /\ ltPc' = "exited"
  /\ UNCHANGED <<ltP99, ltTotal, ltNon2xx>>
  /\ UNCHANGED <<pipeVars, trafficVars, perfVars, svcVars>>

\* the results are logged and the p99 latency is held against the threshold
CheckThreshold ==
  /\ ltPc = "resolved"
  /\ ltExit' = ExitStatus(ltP99, ltNon2xx, ltTotal)
  /\ ltPc' = "exited"
  /\ UNCHANGED <<ltP99, ltTotal, ltNon2xx, ltThrew>>
  /\ UNCHANGED <<pipeVars, trafficVars, perfVars, svcVars>>

LoadNext ==
  \/ RunLoadTest
  \/ AutocannonResolves
  \/ AutocannonRejects
  \/ CheckThreshold

----------------------------------------------------------------------------
(* performance-test.yml: a run of the Performance Test workflow *)

\* the steps of the performance-test job, in the order of the file
PtSteps == << "checkout", "setup-node", "install", "create-config",
              "load-test", "apm-check", "generate-report", "upload-report" >>

PtStepNames == {PtSteps[k] : k \in 1..Len(PtSteps)}

\* Steps whose own work can end in failure without a part of the model
\* deciding it: the actions and `npm ci`. Writing newrelic.js cannot fail.
PtCanFail == {"checkout", "setup-node", "install", "upload-report"}

\* No step has an `if:`, so each carries the implicit success(): it runs
\* only while no earlier step has failed.
PtEarlierFailed(oc, k) == \E m \in 1..(k - 1) : oc[PtSteps[m]] = "failure"

\* the wording the report step picks from steps.apm-check.outcome
ReportWording(apmOutcome) ==
  IF apmOutcome = "success" THEN "passed" ELSE "failed"

\* The shell of a `run:` step is `bash -e`: the script ends with the status
\* of `npm run load-test` as soon as it is not 0. Otherwise its status is
\* that of its last command, `kill $APP_PID`, which fails when the app
\* process has already ended.
LoadTestStepOutcome(exit, appAlive) ==
  IF exit = 0 /\ appAlive THEN "success" ELSE "failure"

\* conclusion of the job: failure when a step failed
PtJobConclusion(oc) ==
  IF \E s \in PtStepNames : oc[s] = "failure" THEN "failure" ELSE "success"

PerfInit ==
  /\ ptStep = 1
  /\ ptOutcome = [s \in PtStepNames |-> "pending"]
  /\ ptApmResult = "none"
  /\ ptReports = 0
  /\ ptWording = ""
  /\ ptArtifact = FALSE
  /\ ptConclusion = "none"
  /\ ptApp = "none"

PtAt(s) == ptStep \in 1..Len(PtSteps) /\ PtSteps[ptStep] = s

PtRuns(s) == PtAt(s) /\ ~PtEarlierFailed(ptOutcome, ptStep)

PtEnd(s, oc) ==
  /\ ptOutcome' = [ptOutcome EXCEPT ![s] = oc]
  /\ ptStep' = ptStep + 1

\* a step after a failed step is skipped
PtSkipStep ==
  /\ ptStep \in 1..Len(PtSteps)
  /\ PtEarlierFailed(ptOutcome, ptStep)
  /\ PtEnd(PtSteps[ptStep], "skipped")
  /\ UNCHANGED <<ptApmResult, ptReports, ptWording, ptArtifact, ptConclusion, ptApp>>
  /\ UNCHANGED <<pipeVars, loadVars, trafficVars, svcVars>>

\* checkout, setup-node, `npm ci`, "Create New Relic config"
PtSetupStep(s) ==
  /\ s \in {"checkout", "setup-node", "install", "create-config"}
  /\ PtRuns(s)
  /\ \E oc \in {"success"} \cup (IF s \in PtCanFail THEN {"failure"} ELSE {}) :
       PtEnd(s, oc)
  /\ UNCHANGED <<ptApmResult, ptReports, ptWording, ptArtifact, ptConclusion, ptApp>>
  /\ UNCHANGED <<pipeVars, loadVars, trafficVars, svcVars>>

\* "Run application with load test": `npm start &` puts the app in the
\* background
PtStartApp ==
  /\ PtRuns("load-test")
  /\ ptApp = "none"
  /\ ptApp' = "running"
  /\ UNCHANGED <<ptStep, ptOutcome, ptApmResult, ptReports, ptWording,
                 ptArtifact, ptConclusion>>
  /\ UNCHANGED <<pipeVars, loadVars, trafficVars, svcVars>>

\* the app process ends by itself (it could not start, or it crashed)
PtAppExits ==
  /\ PtRuns("load-test")
  /\ ptApp = "running"
  /\ ptApp' = "dead"
  /\ UNCHANGED <<ptStep, ptOutcome, ptApmResult, ptReports, ptWording,
                 ptArtifact, ptConclusion>>
  /\ UNCHANGED <<pipeVars, loadVars, trafficVars, svcVars>>

\* `npm run load-test` runs load-test.js
PtLoadTestRuns ==
  /\ PtRuns("load-test")
  /\ ptApp # "none"
  /\ LoadNext

\* load-test.js has exited. With a status other than 0 the script ends
\* there; with 0 it goes on to `kill $APP_PID`, and the status of the kill
\* is the status of the step.
PtLoadTestEnds ==
  /\ PtRuns("load-test")
  /\ ltPc = "exited"
  /\ PtEnd("load-test", LoadTestStepOutcome(ltExit, ptApp = "running"))
  /\ ptApp' = IF ltExit = 0 /\ ptApp = "running" THEN "killed" ELSE ptApp
  /\ UNCHANGED <<ptApmResult, ptReports, ptWording, ptArtifact, ptConclusion>>
  /\ UNCHANGED <<pipeVars, loadVars, trafficVars, svcVars>>

\* "Check APM metrics" (id apm-check), without continue-on-error
PtCheckApmMetrics ==
  /\ PtRuns("apm-check")
  /\ \E r \in CheckResults :
       /\ ptApmResult' = r
       /\ PtEnd("apm-check", StepOutcomeOf(r))
  /\ UNCHANGED <<ptReports, ptWording, ptArtifact, ptConclusion, ptApp>>
  /\ UNCHANGED <<pipeVars, loadVars, trafficVars, svcVars>>

\* "Generate performance report" writes performance-report.md
PtGenerateReport ==
  /\ PtRuns("generate-report")
  /\ ptReports' = ptReports + 1
  /\ ptWording' = ReportWording(ptOutcome["apm-check"])
  /\ PtEnd("generate-report", "success")
  /\ UNCHANGED <<ptApmResult, ptArtifact, ptConclusion, ptApp>>
  /\ UNCHANGED <<pipeVars, loadVars, trafficVars, svcVars>>

\* "Upload performance report" stores the file as an artifact
PtUploadReport ==
  /\ PtRuns("upload-report")
  /\ \E oc \in {"success", "failure"} :
       /\ ptArtifact' = (oc = "success")
       /\ PtEnd("upload-report", oc)
  /\ UNCHANGED <<ptApmResult, ptReports, ptWording, ptConclusion, ptApp>>
  /\ UNCHANGED <<pipeVars, loadVars, trafficVars, svcVars>>

\* every step is settled: the job and the run conclude
PtConclude ==
  /\ ptStep = Len(PtSteps) + 1
  /\ ptConclusion = "none"
  /\ ptConclusion' = PtJobConclusion(ptOutcome)
  /\ UNCHANGED <<ptStep, ptOutcome, ptApmResult, ptReports, ptWording, ptArtifact,
               ptApp>>
  /\ UNCHANGED <<pipeVars, loadVars, trafficVars, svcVars>>

PerfNext ==
  \/ PtSkipStep
  \/ \E s \in PtStepNames : PtSetupStep(s)
  \/ PtStartApp
  \/ PtAppExits
  \/ PtLoadTestRuns
  \/ PtLoadTestEnds
  \/ PtCheckApmMetrics
  \/ PtGenerateReport
  \/ PtUploadReport
  \/ PtConclude

----------------------------------------------------------------------------
(* generatetraffic.js: the traffic generator and the Express service *)

\* number of requests the generator schedules (the loop of the script
\* counts to 20; the model runs a shorter loop)
NumRequests == 3

\* `i * 500`
SpacingMs == 500

\* delay of the /slow handler
SlowDelayMs == 2000

endpoints == <<"/", "/fast", "/slow", "/error">>

ReqIds == 0..(NumRequests - 1)

\* every timer set without a delay
TimerDelay_None(i) == 0

\* the first timer set one spacing late
TimerDelay_Shifted(i) == (i + 1) * SpacingMs

\* delay of the i-th setTimeout
TimerDelay(i) == i * SpacingMs

\* answers: the responses the service has sent for the request
NoRequest ==
  [st |-> "scheduled", ep |-> "", due |-> -1, status |-> 0, answers |-> 0]

\* a handler whose exception escapes Express and ends the process
RouteResult_Crash(ep) ==
  CASE ep = "/"      -> [act |-> "respond", status |-> 200]
    [] ep = "/fast"  -> [act |-> "respond", status |-> 200]
    [] ep = "/slow"  -> [act |-> "timer", status |-> 200]
    [] ep = "/error" -> [act |-> "crash", status |-> 0]

\* What the service does with a request to a route: / and /fast answer at
\* once, /slow sets a timer whose callback answers, /error throws and the
\* error-handling middleware answers with status 500.
RouteResult(ep) ==
  CASE ep = "/"      -> [act |-> "respond", status |-> 200]
    [] ep = "/fast"  -> [act |-> "respond", status |-> 200]
    [] ep = "/slow"  -> [act |-> "timer", status |-> 200]
    [] ep = "/error" -> [act |-> "respond", status |-> 500]

TrafficInit ==
  /\ now = 0
  /\ reqs = [i \in ReqIds |-> NoRequest]
  /\ serverUp = TRUE

\* The request was dispatched and is neither answered nor failed.
InFlight(r) == r.st \in {"sent", "slowWait", "responded"}

\* expiry times of the timers that are pending, in the generator and in
\* the service
PendingTimers ==
  {TimerDelay(i) : i \in {k \in ReqIds : reqs[k].st = "scheduled"}}
    \cup {reqs[i].due : i \in {k \in ReqIds : reqs[k].st = "slowWait"}}

MinOf(S) == CHOOSE m \in S : \A x \in S : m <= x

\* The i-th timer of the generator fires: an endpoint is picked at random
\* and http.get sends the request. Timers fire in the order of their expiry.
FireTimer(i) ==
  /\ reqs[i].st = "scheduled"
  /\ TimerDelay(i) <= now
  /\ \A k \in ReqIds : k < i => reqs[k].st # "scheduled"
  /\ \E n \in 1..Len(endpoints) :
       reqs' = [reqs EXCEPT ![i] = [st |-> "sent", ep |-> endpoints[n],
                                    due |-> -1, status |-> 0, answers |-> 0]]
  /\ UNCHANGED <<now, serverUp>>
  /\ UNCHANGED <<pipeVars, loadVars, perfVars, svcVars>>

\* a service that handles one request at a time: nothing is handled while
\* a /slow request waits for its delay
ServerHandle_Blocking(i) ==
  /\ serverUp
  /\ reqs[i].st = "sent"
  /\ \A k \in ReqIds : reqs[k].st # "slowWait"
  /\ LET r == RouteResult(reqs[i].ep) IN
       reqs' = [reqs EXCEPT ![i] =
         IF r.act = "respond"
           THEN [@ EXCEPT !.st = "responded", !.status = r.status,
                          !.answers = @ + 1]
           ELSE [@ EXCEPT !.st = "slowWait", !.due = now + SlowDelayMs]]
  /\ UNCHANGED <<now, serverUp>>
  /\ UNCHANGED <<pipeVars, loadVars, perfVars, svcVars>>

\* The service receives request i and runs the handler of its route.
ServerHandle(i) ==
  /\ serverUp
  /\ reqs[i].st = "sent"
  /\ LET r == RouteResult(reqs[i].ep) IN
       CASE r.act = "respond" ->
              /\ reqs' = [reqs EXCEPT ![i] =
                   [@ EXCEPT !.st = "responded", !.status = r.status,
                             !.answers = @ + 1]]
              /\ UNCHANGED serverUp
         [] r.act = "timer" ->
              /\ reqs' = [reqs EXCEPT ![i] =
                   [@ EXCEPT !.st = "slowWait", !.due = now + SlowDelayMs]]
              /\ UNCHANGED serverUp
         [] r.act = "crash" ->
              /\ serverUp' = FALSE
              /\ UNCHANGED reqs
  /\ UNCHANGED now
  /\ UNCHANGED <<pipeVars, loadVars, perfVars, svcVars>>

\* The timer of a /slow request expires: the handler answers.
SlowTimer(i) ==
  /\ serverUp
  /\ reqs[i].st = "slowWait"
  /\ reqs[i].due <= now
  /\ reqs' = [reqs EXCEPT ![i] =
       [@ EXCEPT !.st = "responded",
                 !.status = RouteResult(reqs[i].ep).status,
                 !.due = -1, !.answers = @ + 1]]
  /\ UNCHANGED <<now, serverUp>>
  /\ UNCHANGED <<pipeVars, loadVars, perfVars, svcVars>>

\* The response reaches the generator: the callback logs the status.
ClientResponse(i) ==
  /\ reqs[i].st = "responded"
  /\ reqs' = [reqs EXCEPT ![i] = [@ EXCEPT !.st = "done"]]
  /\ UNCHANGED <<now, serverUp>>
  /\ UNCHANGED <<pipeVars, loadVars, perfVars, svcVars>>

\* an 'error' listener that gives up: the timers still pending are cleared
ConnectionError_Abort(i) ==
  /\ reqs[i].st = "sent"
  /\ reqs' = [k \in ReqIds |->
       IF k = i THEN [reqs[k] EXCEPT !.st = "failed"]
       ELSE IF reqs[k].st = "scheduled" THEN [reqs[k] EXCEPT !.st = "cancelled"]
       ELSE reqs[k]]
  /\ UNCHANGED <<now, serverUp>>
  /\ UNCHANGED <<pipeVars, loadVars, perfVars, svcVars>>

\* The connection fails (the service is not reachable): the 'error'
\* listener logs the error.
ConnectionError(i) ==
  /\ reqs[i].st = "sent"
  /\ reqs' = [reqs EXCEPT ![i] = [@ EXCEPT !.st = "failed"]]
  /\ UNCHANGED <<now, serverUp>>
  /\ UNCHANGED <<pipeVars, loadVars, perfVars, svcVars>>

\* Time passes up to the next timer expiry; a timer that has expired
\* fires before time passes further.
AdvanceTime ==
  /\ PendingTimers # {}
  /\ \A d \in PendingTimers : d > now
  /\ now' = MinOf(PendingTimers)
  /\ UNCHANGED <<reqs, serverUp>>
  /\ UNCHANGED <<pipeVars, loadVars, perfVars, svcVars>>

TrafficNext ==
  \/ \E i \in ReqIds : FireTimer(i)
  \/ \E i \in ReqIds : ServerHandle(i)
  \/ \E i \in ReqIds : SlowTimer(i)
  \/ \E i \in ReqIds : ClientResponse(i)
  \/ \E i \in ReqIds : ConnectionError(i)
  \/ AdvanceTime

----------------------------------------------------------------------------
(* generatetraffic.js: the middleware stack of the Express service *)

\* number of requests the service receives in a run of the model
MaxServed == 2

\* The paths a client asks for: the five routes and, standing for every
\* path without a route, "/missing".
Paths == {"/", "/fast", "/slow", "/api/test", "/error", "/missing"}

\* the methods a client sends a request with
Methods == {"GET", "HEAD", "POST", "OPTIONS"}

\* The layers of the app in the order of their registration: app.get for
\* the five routes, the error-handling middleware (four parameters), and
\* the logging middleware (three parameters).
Stack ==
  << [kind |-> "route", method |-> "GET", path |-> "/",         act |-> "respond"],
     [kind |-> "route", method |-> "GET", path |-> "/fast",     act |-> "respond"],
     [kind |-> "route", method |-> "GET", path |-> "/slow",     act |-> "timer"],
     [kind |-> "route", method |-> "GET", path |-> "/api/test", act |-> "respond"],
     [kind |-> "route", method |-> "GET", path |-> "/error",    act |-> "throw"],
     [kind |-> "error", method |-> "*",   path |-> "*",         act |-> "respond"],
     [kind |-> "use",   method |-> "*",   path |-> "*",         act |-> "log"] >>

\* the paths that have a route
RoutePaths == {Stack[k].path : k \in {m \in 1..Len(Stack) : Stack[m].kind = "route"}}

\* A route registered with app.get handles GET and, there being no route
\* for HEAD, HEAD as well.
MethodMatches(layerMethod, method) ==
  \/ layerMethod = method
  \/ layerMethod = "GET" /\ method = "HEAD"

\* route layers that run for every method
LayerApplies_AnyMethod(layer, method, path, err) ==
  CASE layer.kind = "route" -> ~err /\ layer.path = path
    [] layer.kind = "error" -> err
    [] layer.kind = "use"   -> ~err

\* Express runs a layer for a request when the layer is a route of the
\* request's method and path or a middleware, and only error-handling
\* middleware while an error is being passed on.
LayerApplies(layer, method, path, err) ==
  CASE layer.kind = "route" ->
         ~err /\ layer.path = path /\ MethodMatches(layer.method, method)
    [] layer.kind = "error" -> err
    [] layer.kind = "use"   -> ~err

\* the methods Express collects for the Allow header of an OPTIONS request:
\* those of the routes of the path, HEAD along with GET
AllowedMethods(path) ==
  {m \in Methods : \E k \in 1..Len(Stack) :
     /\ Stack[k].kind = "route"
     /\ Stack[k].path = path
     /\ MethodMatches(Stack[k].method, m)}

\* What Express answers when no layer of the stack did: 500 when an error
\* was passed on to the end, 200 with an Allow header for an OPTIONS
\* request to a path that has a route, 404 otherwise.
FinalStatus(method, path, err) ==
  IF err THEN 500
  ELSE IF method = "OPTIONS" /\ AllowedMethods(path) # {} THEN 200
  ELSE 404

\* logged: the logging middleware was invoked for the request
\* err: the error that was passed on to the end of the stack
NewRequest(m, p) ==
  [method |-> m, path |-> p, st |-> "walking", status |-> 0,
   logged |-> FALSE, err |-> FALSE]

ServiceInit ==
  /\ svReqs = << >>
  /\ svLayer = 0
  /\ svErr = FALSE

\* the request Express is passing down the stack (the last one received)
SvWalking == Len(svReqs) > 0 /\ svReqs[Len(svReqs)].st = "walking"

SvCur == Len(svReqs)

SvAtLayer == SvWalking /\ svLayer \in 1..Len(Stack)

\* A request arrives. The layers of the stack call each other in one turn
\* of the event loop, so the service takes a request up only when no other
\* is on its way down the stack; requests whose timer or final handler is
\* pending do not hold it back.
SvReceive(m, p) ==
  /\ ~SvWalking
  /\ Len(svReqs) < MaxServed
  /\ svReqs' = Append(svReqs, NewRequest(m, p))
  /\ svLayer' = 1
  /\ svErr' = FALSE
  /\ UNCHANGED <<pipeVars, loadVars, trafficVars, perfVars>>

\* the layer is not for this request: Express moves on to the next one
SvSkipLayer ==
  /\ SvAtLayer
  /\ ~LayerApplies(Stack[svLayer], svReqs[SvCur].method, svReqs[SvCur].path, svErr)
  /\ svLayer' = svLayer + 1
  /\ UNCHANGED <<svReqs, svErr>>
  /\ UNCHANGED <<pipeVars, loadVars, trafficVars, perfVars>>

\* the handler of the route runs: it answers, sets the timer of /slow, or
\* throws, and Express passes the error on
SvRouteHandler ==
  /\ SvAtLayer
  /\ Stack[svLayer].kind = "route"
  /\ LayerApplies(Stack[svLayer], svReqs[SvCur].method, svReqs[SvCur].path, svErr)
  /\ CASE Stack[svLayer].act = "respond" ->
            /\ svReqs' = [svReqs EXCEPT ![SvCur] =
                 [@ EXCEPT !.st = "answered", !.status = 200]]
            /\ svLayer' = 0
            /\ UNCHANGED svErr
       [] Stack[svLayer].act = "timer" ->
            /\ svReqs' = [svReqs EXCEPT ![SvCur] = [@ EXCEPT !.st = "waiting"]]
            /\ svLayer' = 0
            /\ UNCHANGED svErr
       [] Stack[svLayer].act = "throw" ->
            /\ svErr' = TRUE
            /\ svLayer' = svLayer + 1
            /\ UNCHANGED svReqs
  /\ UNCHANGED <<pipeVars, loadVars, trafficVars, perfVars>>

\* `app.use((err, req, res, next) => ...)`: answers 500, does not call next
SvErrorHandler ==
  /\ SvAtLayer
  /\ Stack[svLayer].kind = "error"
  /\ LayerApplies(Stack[svLayer], svReqs[SvCur].method, svReqs[SvCur].path, svErr)
  /\ svReqs' = [svReqs EXCEPT ![SvCur] =
       [@ EXCEPT !.st = "answered", !.status = 500]]
  /\ svLayer' = 0
  /\ svErr' = FALSE
  /\ UNCHANGED <<pipeVars, loadVars, trafficVars, perfVars>>

\* `app.use((req, res, next) => ...)`: logs the request and calls next()
SvLoggingMiddleware ==
  /\ SvAtLayer
  /\ Stack[svLayer].kind = "use"
  /\ LayerApplies(Stack[svLayer], svReqs[SvCur].method, svReqs[SvCur].path, svErr)
  /\ svReqs' = [svReqs EXCEPT ![SvCur] = [@ EXCEPT !.logged = TRUE]]
  /\ svLayer' = svLayer + 1
  /\ UNCHANGED svErr
  /\ UNCHANGED <<pipeVars, loadVars, trafficVars, perfVars>>

\* The end of the stack: Express puts off its final handler with
\* setImmediate, and the walk of the request ends here.
SvEndOfStack ==
  /\ SvWalking
  /\ svLayer = Len(Stack) + 1
  /\ svReqs' = [svReqs EXCEPT ![SvCur] =
       [@ EXCEPT !.st = "deferred", !.err = svErr]]
  /\ svLayer' = 0
  /\ svErr' = FALSE
  /\ UNCHANGED <<pipeVars, loadVars, trafficVars, perfVars>>

\* the final handler that was put off runs and answers the request
SvFinalHandler(k) ==
  /\ ~SvWalking
  /\ k \in 1..Len(svReqs)
  /\ svReqs[k].st = "deferred"
  /\ svReqs' = [svReqs EXCEPT ![k] =
       [@ EXCEPT !.st = "answered",
                 !.status = FinalStatus(svReqs[k].method, svReqs[k].path,
                                       svReqs[k].err)]]
  /\ UNCHANGED <<svLayer, svErr>>
  /\ UNCHANGED <<pipeVars, loadVars, trafficVars, perfVars>>

\* the timer of a /slow request expires: its callback answers
SvSlowTimer(k) ==
  /\ ~SvWalking
  /\ k \in 1..Len(svReqs)
  /\ svReqs[k].st = "waiting"
  /\ svReqs' = [svReqs EXCEPT ![k] =
       [@ EXCEPT !.st = "answered", !.status = 200]]
  /\ UNCHANGED <<svLayer, svErr>>
  /\ UNCHANGED <<pipeVars, loadVars, trafficVars, perfVars>>

ServiceNext ==
  \/ \E m \in Methods : \E p \in Paths : SvReceive(m, p)
  \/ SvSkipLayer
  \/ SvRouteHandler
  \/ SvErrorHandler
  \/ SvLoggingMiddleware
  \/ SvEndOfStack
  \/ \E k \in 1..MaxServed : SvFinalHandler(k)
  \/ \E k \in 1..MaxServed : SvSlowTimer(k)

----------------------------------------------------------------------------
(* Specifications *)

\* The pipeline of one push; the script and the generator are not running.
PipelineInit == PipeInit /\ LoadInit /\ TrafficInit /\ PerfInit /\ ServiceInit

PipelineSpec == PipelineInit /\ [][PipeNext]_vars

\* A hosted job always ends (it succeeds, fails or hits its time limit) and
\* the runner keeps picking up runnable jobs.
PipelineFairSpec == PipelineSpec /\ WF_vars(PipeNext)

\* No workflow run is in progress.
PipeIdle == PipeInit /\ sha = 1 /\ actor = 1

\* One run of load-test.js.
LoadTestInit == PipeIdle /\ LoadInit /\ TrafficInit /\ PerfInit /\ ServiceInit

LoadTestSpec == LoadTestInit /\ [][LoadNext]_vars

\* One run of the traffic generator against the service.
TrafficRunInit == PipeIdle /\ LoadInit /\ TrafficInit /\ PerfInit /\ ServiceInit

TrafficSpec == TrafficRunInit /\ [][TrafficNext]_vars

\* One run of the Performance Test workflow.
PerfTestInit == PipeIdle /\ LoadInit /\ TrafficInit /\ PerfInit /\ ServiceInit

PerfTestSpec == PerfTestInit /\ [][PerfNext]_vars

\* The service answering requests to any path.
ServiceRunInit == PipeIdle /\ LoadInit /\ TrafficInit /\ PerfInit /\ ServiceInit

ServiceSpec == ServiceRunInit /\ [][ServiceNext]_vars

\* The event loops of the generator and of the service run every callback
\* that is due, and time passes.
TrafficFairSpec == TrafficSpec /\ WF_vars(TrafficNext)

----------------------------------------------------------------------------
(* Properties of the deployment pipeline *)

StageOutcomes == {"skipped", "ran-ok", "ran-failed"}

\* The job was picked up and its steps run (it was not skipped).
Attempted(j) == outcome[j] \in {"running", "ran-ok", "ran-failed"}

\* The Gate Decision: the verdict "Set performance status" computes from
\* the outcome of performance-check ("" until it is computed).
GateDecision == setStatusOutput

MarkersOf(j) ==
  {i \in DOMAIN markers : markers[i].description = MarkerDescription(j)}

\* C1: deploy-production runs only if the Gate Decision is pass and
\* deploy-staging is ran-ok; when the Gate Decision is fail, or deploy-staging
\* ended ran-failed or skipped, deploy-production's outcome is skipped.
C1_ProductionOnlyOnPassAndStagingOk ==
  /\ Attempted("deploy-production") =>
       /\ GateDecision = "pass"
       /\ outcome["deploy-staging"] = "ran-ok"
  /\ ( /\ \/ GateDecision = "fail"
           \/ outcome["deploy-staging"] \in {"ran-failed", "skipped"}
        /\ outcome["deploy-production"] # "pending" )
       => outcome["deploy-production"] = "skipped"

C1_Witness ==
  /\ GateDecision = "fail"
  /\ outcome["deploy-staging"] = "ran-ok"
  /\ outcome["deploy-production"] = "skipped"

\* C2: in a run whose Gate Decision is fail, notify-performance-issue is
\* attempted: once it has an outcome, the outcome is ran-ok or ran-failed,
\* never skipped.
C2_NotifyAttemptedOnFail ==
  ( /\ GateDecision = "fail"
    /\ outcome["notify-performance-issue"] \in StageOutcomes )
  => outcome["notify-performance-issue"] \in {"ran-ok", "ran-failed"}

\* C3: with Gate Decision pass and deploy-staging ran-ok, deploy-production
\* runs and the finished run has emitted exactly one marker for staging and
\* exactly one for production, both with the same revision.
C3_ProductionRunsAndMarkersEmitted ==
  ( /\ conclusion # "none"
    /\ GateDecision = "pass"
    /\ outcome["deploy-staging"] = "ran-ok" )
  => /\ Attempted("deploy-production")
     /\ Cardinality(MarkersOf("deploy-staging")) = 1
     /\ Cardinality(MarkersOf("deploy-production")) = 1
     /\ \A i, k \in DOMAIN markers : markers[i].revision = markers[k].revision

\* C4: deploy-staging is attempted once performance-gate has an outcome,
\* whatever the Gate Decision; a run with Gate Decision fail attempts both
\* deploy-staging and notify-performance-issue.
C4_StagingAlwaysAndNotifyOnFail ==
  /\ ( /\ outcome["performance-gate"] \in {"ran-ok", "ran-failed"}
        /\ outcome["deploy-staging"] # "pending" )
       => Attempted("deploy-staging")
  /\ ( /\ GateDecision = "fail"
        /\ outcome["deploy-staging"] # "pending"
        /\ outcome["notify-performance-issue"] # "pending" )
       => /\ Attempted("deploy-staging")
          /\ Attempted("notify-performance-issue")

\* C5: no job starts before every job it needs has a terminal outcome:
\* deploy-staging and notify-performance-issue not before performance-gate,
\* deploy-production not before performance-gate and deploy-staging.
C5_NoStartBeforeDependencies ==
  /\ Attempted("deploy-staging") =>
       outcome["performance-gate"] \in StageOutcomes
  /\ Attempted("notify-performance-issue") =>
       outcome["performance-gate"] \in StageOutcomes
  /\ Attempted("deploy-production") =>
       /\ outcome["performance-gate"] \in StageOutcomes
       /\ outcome["deploy-staging"] \in StageOutcomes

C5_Witness ==
  /\ outcome["deploy-production"] = "running"
  /\ outcome["notify-performance-issue"] = "skipped"

\* C6: every run reaches a state where each of the four jobs has an outcome
\* in {skipped, ran-ok, ran-failed}, and an assigned outcome never changes.
C6_OutcomeAssignedOnce ==
  /\ <>(\A j \in Jobs : outcome[j] \in StageOutcomes)
  /\ [][\A j \in Jobs :
          outcome[j] \in StageOutcomes => outcome'[j] = outcome[j]]_vars

C6_Witness ==
  /\ \A j \in Jobs : outcome[j] \in StageOutcomes
  /\ outcome["deploy-staging"] = "ran-failed"
  /\ outcome["deploy-production"] = "skipped"

\* C8: a failure of the metric check itself (query fault, unknown metric) is
\* kept apart from a threshold breach: it does not end in the Gate Decision
\* of a breach, and defaults to neither pass nor fail.
C8_EvaluationErrorIsNotABreach ==
  ( /\ checkResult = "error"
    /\ outcome["performance-gate"] \in StageOutcomes )
  => GateDecision \notin {"pass", "fail"}

\* C9: the run's conclusion is failure iff some job is ran-failed; jobs
\* skipped by their guard, and a threshold breach with no other failing
\* step, leave the conclusion a success.
C9_FailureIffStageFailed ==
  conclusion # "none" =>
    /\ conclusion = "failure" <=> \E j \in Jobs : outcome[j] = "ran-failed"
    /\ ( /\ checkResult = "breach"
          /\ failedSteps = {<<"performance-gate", "performance-check">>} )
         => conclusion = "success"
    /\ (\A j \in Jobs : outcome[j] \in {"skipped", "ran-ok"})
         => conclusion = "success"

C9_Witness ==
  /\ conclusion = "success"
  /\ checkResult = "breach"
  /\ outcome["deploy-production"] = "skipped"

\* C16: when performance-gate has finished, its output performance_status
\* is 'pass' if the outcome of performance-check is success and 'fail'
\* otherwise; it is never empty.
C16_PerformanceStatusIsPassOrFail ==
  outcome["performance-gate"] \in StageOutcomes =>
    /\ performance_status \in {"pass", "fail"}
    /\ performance_status = "pass" <=> checkOutcome = "success"
    /\ performance_status = "fail" <=> checkOutcome # "success"

\* C19: deploy-production and notify-performance-issue are never both
\* attempted in one run.
C19_ProductionAndNotifyExclusive ==
  ~(Attempted("deploy-production") /\ Attempted("notify-performance-issue"))

C19_Witness ==
  /\ outcome["notify-performance-issue"] = "ran-ok"
  /\ outcome["deploy-staging"] = "ran-ok"
  /\ outcome["deploy-production"] = "skipped"
  /\ conclusion = "success"

----------------------------------------------------------------------------
(* Properties of the load-test script *)

LoadTestDone == ltPc = "exited" /\ ~ltThrew

\* C7 (as claimed): the threshold is a strict "below": the check passes
\* (exit status 0) iff the observed value is less than the threshold; 450
\* passes, 650 fails and exactly 500 fails.
C7_StrictBelow ==
  LoadTestDone =>
    /\ ltExit = 0 <=> ltP99 < P99Threshold
    /\ ltP99 = 450 => ltExit = 0
    /\ ltP99 = 650 => ltExit = 1
    /\ ltP99 = 500 => ltExit = 1

\* C7 (amended): the check fails iff the observed p99 is greater than the
\* threshold: 450 passes, 650 fails and exactly 500 passes.
C7_FailsIffAboveThreshold ==
  LoadTestDone =>
    /\ ltExit = 0 <=> ltP99 <= P99Threshold
    /\ ltExit = 1 <=> ltP99 > P99Threshold
    /\ ltP99 = 450 => ltExit = 0
    /\ ltP99 = 650 => ltExit = 1
    /\ ltP99 = 500 => ltExit = 0

C7_Witness ==
  /\ LoadTestDone
  /\ ltP99 = P99Threshold
  /\ ltExit = 0

\* C17: the script ends with exit status 1 exactly when the p99 latency
\* is greater than 500 ms or the autocannon call rejected, and with exit
\* status 0 in every other case, a p99 of exactly 500 included.
C17_ExitOneIffExceededOrRejected ==
  ltPc = "exited" =>
    /\ ltExit \in {0, 1}
    /\ ltExit = 1 <=> (ltThrew \/ ltP99 > 500)
    /\ (~ltThrew /\ ltP99 = 500) => ltExit = 0

C17_Witness ==
  /\ ltPc = "exited"
  /\ ltThrew
  /\ ltExit = 1

\* C20: the exit status depends only on the p99 latency and on whether the
\* call rejected: a run with the same p99 and any other count of non-2xx
\* responses, all of them included, ends with the same exit status.
C20_ExitIndependentOfNon2xx ==
  (ltPc = "exited" /\ ~ltThrew) =>
    \A n \in 0..ltTotal : ExitStatus(ltP99, n, ltTotal) = ltExit

C20_Witness ==
  /\ ltPc = "exited"
  /\ ~ltThrew
  /\ ltTotal > 0
  /\ ltNon2xx = ltTotal
  /\ ltExit = 0

----------------------------------------------------------------------------
(* Properties of the traffic generator *)

InFlightIds == {i \in ReqIds : InFlight(reqs[i])}

\* C10 (as claimed): at every moment at most one request is in flight.
C10_SingleInFlight == Cardinality(InFlightIds) <= 1

\* C10 (amended): requests are dispatched one per 500 ms timer, in order,
\* without waiting for answers: the number in flight never exceeds the
\* number of timers that have expired, and a /slow request is in flight
\* for at least 2000 ms.
C10_InFlightBoundedByExpiredTimers ==
  /\ Cardinality(InFlightIds) <= (now \div SpacingMs) + 1
  /\ \A i \in ReqIds :
       reqs[i].st # "scheduled" =>
         /\ now >= i * SpacingMs
         /\ \A k \in ReqIds : k < i => reqs[k].st # "scheduled"
  /\ \A i \in ReqIds :
       (reqs[i].ep = "/slow" /\ reqs[i].st \in {"responded", "done"})
         => now >= i * SpacingMs + SlowDelayMs

C10_Witness ==
  \E i, k \in ReqIds :
    /\ i < k
    /\ reqs[i].ep = "/slow"
    /\ reqs[i].st = "slowWait"
    /\ now = k * SpacingMs
    /\ InFlight(reqs[k])

\* The generator has sent the request.
Dispatched(r) == r.st \in {"sent", "slowWait", "responded", "done", "failed"}

AllDispatched == \A i \in ReqIds : Dispatched(reqs[i])

\* The request ended without a good answer: the connection failed or the
\* status of the response is not 2xx.
EndedBadly(r) ==
  \/ r.st = "failed"
  \/ r.st = "done" /\ ~(r.status >= 200 /\ r.status < 300)

\* C11: a connection failure or a non-2xx response of one request is
\* reported for that request and does not abort the run: the step that
\* reports it leaves every other request as it was, and whichever requests
\* fail, all requests of the loop are dispatched in the end.
C11_FailuresDoNotAbort ==
  /\ <>AllDispatched
  /\ [][\A i \in ReqIds :
          (EndedBadly(reqs'[i]) /\ ~EndedBadly(reqs[i]))
            => \A k \in ReqIds \ {i} : reqs'[k] = reqs[k]]_vars
  /\ [](\A i \in ReqIds :
          reqs[i].st \in {"scheduled", "sent", "slowWait", "responded",
                          "done", "failed"})

C11_Witness ==
  /\ AllDispatched
  /\ reqs[0].st = "failed"
  /\ reqs[1].st = "done" /\ reqs[1].status = 500
  /\ reqs[2].st = "done" /\ reqs[2].status = 200

\* C12: a pending /slow request suspends only itself: while /slow requests
\* wait out their delay, a request to another route that has arrived can
\* be handled at once; every /slow request is answered in the end, and no
\* request is answered more than once.
C12_SlowSuspendsOnlyItself ==
  /\ [](\A i \in ReqIds :
          ( /\ reqs[i].st = "sent"
            /\ reqs[i].ep # "/slow"
            /\ \E k \in ReqIds : reqs[k].st = "slowWait" )
          => ENABLED ServerHandle(i))
  /\ [](\A i \in ReqIds :
          /\ reqs[i].answers <= 1
          /\ reqs[i].st \in {"responded", "done"} => reqs[i].answers = 1)
  /\ \A i \in ReqIds :
       [](reqs[i].st = "slowWait" =>
            <>(reqs[i].st \in {"responded", "done"} /\ reqs[i].answers = 1))

C12_Witness ==
  /\ reqs[0].ep = "/slow" /\ reqs[0].st = "slowWait"
  /\ reqs[1].ep = "/slow" /\ reqs[1].st = "slowWait"
  /\ reqs[2].ep = "/fast" /\ reqs[2].st = "done"
  /\ now < SlowDelayMs

\* C13: a request to /error is answered with status 500 and the process
\* keeps running: every request that arrives afterwards is still served.
C13_ErrorAnsweredAndServiceStaysUp ==
  /\ serverUp
  /\ \A i \in ReqIds :
       (reqs[i].ep = "/error" /\ reqs[i].st \in {"responded", "done"})
         => reqs[i].status = 500
  /\ \A i \in ReqIds : reqs[i].st = "sent" => ENABLED ServerHandle(i)

C13_Witness ==
  /\ reqs[0].ep = "/error" /\ reqs[0].st = "done" /\ reqs[0].status = 500
  /\ reqs[1].ep = "/error" /\ reqs[1].st = "done" /\ reqs[1].status = 500
  /\ reqs[2].ep = "/" /\ reqs[2].st = "done" /\ reqs[2].status = 200

\* C18: the generator dispatches every request of its loop and then stops:
\* request i is dispatched at offset i*500 ms, after the requests before it,
\* one request per step, to one of the four endpoints, and no request is
\* dispatched twice.
C18_DispatchSchedule ==
  /\ <>[](AllDispatched /\ ~ENABLED (\E i \in ReqIds : FireTimer(i)))
  /\ [](DOMAIN reqs = 0..(NumRequests - 1))
  /\ [][\A i \in ReqIds :
          (reqs[i].st = "scheduled" /\ reqs'[i].st # "scheduled") =>
            /\ now = i * 500
            /\ reqs'[i].st = "sent"
            /\ reqs'[i].ep \in {"/", "/fast", "/slow", "/error"}
            /\ \A k \in ReqIds : k < i => Dispatched(reqs[k])
            /\ \A k \in ReqIds \ {i} : reqs'[k] = reqs[k]]_vars
  /\ [][\A i \in ReqIds :
          Dispatched(reqs[i]) =>
            /\ Dispatched(reqs'[i])
            /\ reqs'[i].ep = reqs[i].ep
            /\ reqs'[i].st = "sent" => reqs[i].st = "sent"]_vars

C18_Witness ==
  /\ AllDispatched
  /\ now = (NumRequests - 1) * SpacingMs
  /\ reqs[NumRequests - 1].st = "sent"

----------------------------------------------------------------------------
(* performance-test.yml: the Performance Report *)

\* C15: every run of the Performance Test workflow that has concluded wrote
\* the Performance Report exactly once, whatever the load test and the gate
\* check came to, and the report of a failing run carries the fail wording.
C15_ReportOncePerRun ==
  ptConclusion # "none" =>
    /\ ptReports = 1
    /\ ptConclusion = "failure" => ptWording = "failed"

----------------------------------------------------------------------------
(* generatetraffic.js: the request-logging middleware *)

SvIds == 1..Len(svReqs)

\* the request was answered by its route or by the error handler
AnsweredByRoute(r) ==
  r.st = "answered" /\ r.status = (IF r.path = "/error" THEN 500 ELSE 200)

\* the request is one a route was registered for
MatchesRoute(r) ==
  \E k \in 1..Len(Stack) :
    /\ Stack[k].kind = "route"
    /\ Stack[k].path = r.path
    /\ MethodMatches(Stack[k].method, r.method)

\* C21: the logging middleware is registered after every route and after
\* the error handler, and it is never invoked for a request to '/', '/fast',
\* '/slow', '/api/test' or '/error', whatever the request: such a request
\* is answered by its route or by the error handler.
C21_NoRequestToRoutePathLogged ==
  /\ RoutePaths = {"/", "/fast", "/slow", "/api/test", "/error"}
  /\ \A k, m \in 1..Len(Stack) :
        (Stack[k].act = "log" /\ Stack[m].kind \in {"route", "error"}) => m < k
  /\ \A i \in SvIds :
        /\ svReqs[i].path \in RoutePaths => ~svReqs[i].logged
        /\ (svReqs[i].path \in RoutePaths /\ svReqs[i].st = "answered")
             => AnsweredByRoute(svReqs[i])

\* C21, amended: the logging middleware is registered after every route and
\* after the error handler and runs only for requests that match no route.
\* A GET or HEAD request to '/', '/fast', '/slow', '/api/test' or '/error'
\* is answered by its route or by the error handler without the logging
\* middleware being invoked; a request of another method to these paths,
\* like a request to a path without a route, matches no route and the
\* logging middleware is invoked for it before it is answered.
C21_LoggingOnlyForUnmatched ==
  /\ RoutePaths = {"/", "/fast", "/slow", "/api/test", "/error"}
  /\ \A k, m \in 1..Len(Stack) :
        (Stack[k].act = "log" /\ Stack[m].kind \in {"route", "error"}) => m < k
  /\ \A i \in SvIds :
        /\ MatchesRoute(svReqs[i]) <=>
             (svReqs[i].path \in RoutePaths /\ svReqs[i].method \in {"GET", "HEAD"})
        /\ MatchesRoute(svReqs[i]) => ~svReqs[i].logged
        /\ (MatchesRoute(svReqs[i]) /\ svReqs[i].st = "answered")
             => AnsweredByRoute(svReqs[i])
        /\ svReqs[i].logged => ~MatchesRoute(svReqs[i])
        /\ (~MatchesRoute(svReqs[i]) /\ svReqs[i].st \in {"deferred", "answered"})
             => svReqs[i].logged

\* a GET to /error was answered without the logging middleware, and the
\* middleware ran for an OPTIONS request to a path that has a GET route
C21_Witness ==
  \E i, j \in SvIds :
    /\ svReqs[i].method = "GET" /\ svReqs[i].path = "/error"
    /\ AnsweredByRoute(svReqs[i]) /\ ~svReqs[i].logged
    /\ svReqs[j].method = "OPTIONS" /\ svReqs[j].path = "/fast"
    /\ svReqs[j].logged /\ svReqs[j].st = "answered" /\ svReqs[j].status = 200

====
